---- MODULE Spec2Model ----
(***************************************************************************)
(* A model of the SlimeE chat controller (src/index.tsx): the session      *)
(* state, its persistence to localStorage, the query gate of handleSearch  *)
(* and the four generation handlers, each cut at its await points.         *)
(*                                                                         *)
(* Representation.                                                         *)
(*  - A string is a sequence of tokens (words, fence markers, newlines);   *)
(*    concatenation is \o and the empty string is << >>.                   *)
(*  - A JavaScript object is a record whose domain is the set of keys that *)
(*    are set; a key holding undefined is modelled as an absent key.       *)
(*  - Chat objects live in a heap (chatObjs) and state.chats holds their   *)
(*    addresses, so that a handler keeps writing to the chat object it     *)
(*    captured even after sign-out has replaced the session.               *)
(*  - null (activeChatId, activeArtifactMessageIndex) is 0; chat ids start *)
(*    at 1 and message indices are 1-based here (0-based in the source).   *)
(***************************************************************************)
EXTENDS Naturals, Sequences, FiniteSets, TLC

VARIABLES
  state,                       \* the AppState object the variable `state` refers to
  chatObjs,                    \* heap: address -> Chat object
  isLoading,
  activeArtifactMessageIndex,
  storage,                     \* localStorage['slimeeState']: << >> or <<snapshot>>
  pc,                          \* await point of the one handleSearch call in flight
  query,                       \* locals of that call ...
  activeChat,                  \*   address of the captured chat object
  msgIdx,                      \*   position of modelMessage in its history
  isRetry,
  fullText,
  nChunks,
  tabsHidden,                  \* DOM: tabsContainer has class hidden
  tabs,                        \* DOM: chat ids of the rendered tab items
  viewButtons,                 \* DOM: message indices with a View Artifact button
  artifactVisible,             \* DOM: artifact pane shown
  issued,                      \* history: chat ids issued since load
  calls,                       \* history: external calls made by the video query in flight
  received,                    \* history: stream increments consumed by the query in flight
  renderSaved,                 \* history: the last renderChatHistory showed what storage held
  last                         \* history: what the last step did, if it completed a
                               \*   query, dropped one at the gate or loaded the page

frameVars == <<pc, query, activeChat, msgIdx, isRetry, fullText, nChunks>>
domVars == <<tabsHidden, tabs, viewButtons, artifactVisible>>
vars == <<state, chatObjs, isLoading, activeArtifactMessageIndex, storage,
          pc, query, activeChat, msgIdx, isRetry, fullText, nChunks,
          tabsHidden, tabs, viewButtons, artifactVisible,
          issued, calls, received, renderSaved, last>>

\* ---- bounds of the model
MaxChats == 2
MaxQueries == 1
MaxChunks == 2
CallCap == 3

\* ---- null
Null == 0

\* ---- strings as token sequences
Whitespace == {" ", "\n"}

RECURSIVE TrimStart(_)
TrimStart(s) ==
  IF s # << >> /\ Head(s) \in Whitespace THEN TrimStart(Tail(s)) ELSE s

RECURSIVE TrimEnd(_)
TrimEnd(s) ==
  IF s # << >> /\ s[Len(s)] \in Whitespace THEN TrimEnd(SubSeq(s, 1, Len(s) - 1)) ELSE s

Trim(s) == TrimEnd(TrimStart(s))

Lower(w) ==
  CASE w = "Draw" -> "draw"
    [] w = "Animate" -> "animate"
    [] w = "HTML" -> "html"
    [] w = "JS" -> "js"
    [] OTHER -> w

Includes(s, tok) == \E i \in 1..Len(s) : s[i] = tok

\* ---- the three routing patterns of handleSearch
\* imageKeywords is anchored at the start and has no trailing word boundary:
\* a first word that merely begins with a prefix matches too.
ImagePrefixes == {"draw", "create", "generate", "make an image of", "show me a picture of"}
BeginsWithImagePrefix == ImagePrefixes \cup {"drawing", "created", "generates"}
VideoPhrases == {"video of", "animate", "generate a video", "create a video"}
CodeWords == {"code", "write", "html", "css", "javascript", "js", "function",
              "snippet", "app", "component"}

imageKeywords(q) == q # << >> /\ Lower(Head(q)) \in BeginsWithImagePrefix
videoKeywords(q) == \E i \in 1..Len(q) : Lower(q[i]) \in VideoPhrases
codeKeywords(q) == \E i \in 1..Len(q) : Lower(q[i]) \in CodeWords

Classify_VideoFirst(q) ==
  IF videoKeywords(q) THEN "video"
  ELSE IF imageKeywords(q) THEN "image"
  ELSE IF codeKeywords(q) THEN "code"
  ELSE "text"

Classify(q) ==
  IF imageKeywords(q) THEN "image"
  ELSE IF videoKeywords(q) THEN "video"
  ELSE IF codeKeywords(q) THEN "code"
  ELSE "text"

\* ---- extractCode
\* the three-backtick fence marker
Fence == "FENCE"
WordTokens == {"html", "css", "javascript", "js", "py", "HTML", "JS", "x", "Hi"}
IsWord(t) == t \in WordTokens

RECURSIVE WordRun(_, _)
\* number of consecutive word tokens of md from position i (the language tag of the pattern)
WordRun(md, i) ==
  IF i <= Len(md) /\ IsWord(md[i]) THEN 1 + WordRun(md, i + 1) ELSE 0

RECURSIVE NextFence(_, _)
\* first position >= i holding a fence, 0 if none
NextFence(md, i) ==
  IF i > Len(md) THEN 0
  ELSE IF md[i] = Fence THEN i
  ELSE NextFence(md, i + 1)

\* the match of codeBlockRegex (fence, word run, newline, lazy body, fence) starting at p
MatchAt(md, p) ==
  LET n == WordRun(md, p + 1)
      nl == p + 1 + n
      close == IF nl <= Len(md) /\ md[nl] = "\n" THEN NextFence(md, nl + 1) ELSE 0
  IN  IF md[p] = Fence /\ close # 0
      THEN [ok |-> TRUE, lang |-> SubSeq(md, p + 1, p + n),
            body |-> SubSeq(md, nl + 1, close - 1), next |-> close + 1]
      ELSE [ok |-> FALSE, lang |-> << >>, body |-> << >>, next |-> p + 1]

LowerAll(s) == [i \in 1..Len(s) |-> Lower(s[i])]

RECURSIVE ExtractFrom(_, _, _)
ExtractFrom(md, p, acc) ==
  IF p > Len(md) THEN acc
  ELSE LET m == MatchAt(md, p)
           lang == LowerAll(m.lang)
           code == Trim(m.body) \o <<"\n">>
       IN  IF ~m.ok THEN ExtractFrom(md, p + 1, acc)
           ELSE IF lang = <<"html">>
             THEN ExtractFrom(md, m.next, [acc EXCEPT !.html = @ \o code, !.hasCode = TRUE])
           ELSE IF lang = <<"css">>
             THEN ExtractFrom(md, m.next, [acc EXCEPT !.css = @ \o code, !.hasCode = TRUE])
           ELSE IF lang = <<"javascript">> \/ lang = <<"js">>
             THEN ExtractFrom(md, m.next, [acc EXCEPT !.javascript = @ \o code, !.hasCode = TRUE])
           ELSE ExtractFrom(md, m.next, acc)

extractCode_EmptyObject(markdown) ==
  LET r == ExtractFrom(markdown, 1,
             [html |-> << >>, css |-> << >>, javascript |-> << >>, hasCode |-> FALSE])
  IN  <<[html |-> r.html, css |-> r.css, javascript |-> r.javascript]>>

\* << >> for null, else <<the extracted object>>
extractCode(markdown) ==
  LET r == ExtractFrom(markdown, 1,
             [html |-> << >>, css |-> << >>, javascript |-> << >>, hasCode |-> FALSE])
  IN  IF r.hasCode
      THEN <<[html |-> r.html, css |-> r.css, javascript |-> r.javascript]>>
      ELSE << >>

\* ---- the session, the heap of chat objects and the DOM projections
Range(s) == {s[i] : i \in 1..Len(s)}

SetField(m, k, v) == [x \in DOMAIN m \cup {k} |-> IF x = k THEN v ELSE m[x]]

EmptyHeap == [a \in {} |-> 0]

DefaultState ==
  [isAuthenticated |-> FALSE, chats |-> << >>, activeChatId |-> Null, nextChatId |-> 1]

\* state.chats.find(c => c.id === state.activeChatId): its address, Null if undefined
FindChat(st, objs) ==
  LET hits == {i \in 1..Len(st.chats) : objs[st.chats[i]].id = st.activeChatId}
  IN  IF hits = {} THEN Null
      ELSE st.chats[CHOOSE i \in hits : \A j \in hits : i <= j]

\* the messages renderChatHistory puts in chatContainer
Transcript(st, objs) ==
  IF FindChat(st, objs) = Null THEN << >> ELSE objs[FindChat(st, objs)].history

\* the bubbles createModelMessageBubble gives a View Artifact button
Buttons(st, objs) ==
  LET t == Transcript(st, objs)
  IN  {i \in 1..Len(t) : t[i].role = "model" /\ "code" \in DOMAIN t[i]}

\* renderArtifactPane: TRUE when it shows the pane
PaneVisible(st, objs, idx) ==
  LET t == Transcript(st, objs)
  IN  /\ FindChat(st, objs) # Null
      /\ idx # Null
      /\ idx <= Len(t)
      /\ "code" \in DOMAIN t[idx]

TabIds(st, objs) == [i \in 1..Len(st.chats) |-> objs[st.chats[i]].id]

\* JSON.stringify(state): the chat objects are written out in place of their addresses
Serialize(st, objs) ==
  [isAuthenticated |-> st.isAuthenticated,
   chats |-> [i \in 1..Len(st.chats) |-> objs[st.chats[i]]],
   activeChatId |-> st.activeChatId,
   nextChatId |-> st.nextChatId]

ParsedState_FreshCounter(snap) ==
  [isAuthenticated |-> snap.isAuthenticated,
   chats |-> [i \in 1..Len(snap.chats) |-> i],
   activeChatId |-> snap.activeChatId,
   nextChatId |-> 1]

\* JSON.parse(savedState): fresh chat objects at addresses 1..n
ParsedState(snap) ==
  [isAuthenticated |-> snap.isAuthenticated,
   chats |-> [i \in 1..Len(snap.chats) |-> i],
   activeChatId |-> snap.activeChatId,
   nextChatId |-> snap.nextChatId]

ParsedObjs(snap) == [a \in {i : i \in 1..Len(snap.chats)} |-> snap.chats[a]]

\* the transcript the snapshot in storage would render
SavedTranscript(stor) ==
  IF stor = << >> THEN << >>
  ELSE Transcript(ParsedState(stor[1]), ParsedObjs(stor[1]))

\* The heap is kept in a canonical layout: chat objects no longer reachable from the
\* session or the running handler are dropped, and a chat object that only the
\* running handler still references is moved to OrphanAddr (MoveTo gives the new
\* address of a). Addresses are not observable by the program.
OrphanAddr == MaxChats + 1

MoveTo(a, st) == IF a = Null \/ a \in Range(st.chats) THEN a ELSE OrphanAddr

Collect(objs, st, keep) ==
  [b \in {MoveTo(a, st) : a \in (Range(st.chats) \cup keep) \cap DOMAIN objs} |->
     IF b \in Range(st.chats) THEN objs[b]
     ELSE objs[CHOOSE a \in keep \cap DOMAIN objs : a \notin Range(st.chats)]]

Fresh(objs) ==
  CHOOSE a \in 1..(Cardinality(DOMAIN objs) + 1) :
    a \notin DOMAIN objs /\ \A b \in 1..(a - 1) : b \in DOMAIN objs

Pairs(objs) ==
  LET RECURSIVE Sum(_)
      Sum(S) == IF S = {} THEN 0
                ELSE LET a == CHOOSE x \in S : TRUE
                     IN  Len(objs[a].history) + Sum(S \ {a})
  IN  Sum(DOMAIN objs)

\* caught: << >>, or <<the message of the error the catch block last received>>;
\* opDone, hasUri, ok: what the current attempt has seen of its operation and download
NoCalls == [submits |-> 0, reprompts |-> 0, retries |-> 0,
            firstCred |-> FALSE, retryCred |-> FALSE,
            caught |-> << >>, opDone |-> FALSE, hasUri |-> FALSE, ok |-> FALSE]

Bump(n) == IF n < CallCap THEN n + 1 ELSE n

Init ==
  /\ state = DefaultState
  /\ chatObjs = EmptyHeap
  /\ isLoading = FALSE
  /\ activeArtifactMessageIndex = Null
  /\ storage = << >>
  /\ pc = "idle"
  /\ query = << >>
  /\ activeChat = Null
  /\ msgIdx = 0
  /\ isRetry = FALSE
  /\ fullText = << >>
  /\ nChunks = 0
  /\ tabsHidden = TRUE
  /\ tabs = << >>
  /\ viewButtons = {}
  /\ artifactVisible = FALSE
  /\ issued = {}
  /\ calls = NoCalls
  /\ received = << >>
  /\ renderSaved = TRUE
  /\ last = << >>

InFlight == IF pc = "idle" THEN {} ELSE {activeChat}

\* ---- event handlers
NewChat_NoIncrement(st, objs) ==
  LET a == Fresh(objs)
      newChat == [id |-> st.nextChatId, title |-> <<"Chat", st.nextChatId>>,
                  history |-> << >>]
  IN  [st |-> [st EXCEPT !.chats = Append(@, a),
                         !.activeChatId = newChat.id],
       objs |-> [x \in DOMAIN objs \cup {a} |-> IF x = a THEN newChat ELSE objs[x]]]

\* the body of handleNewChat up to its call of closeArtifactPane
NewChat(st, objs) ==
  LET a == Fresh(objs)
      newChat == [id |-> st.nextChatId, title |-> <<"Chat", st.nextChatId>>,
                  history |-> << >>]
  IN  [st |-> [st EXCEPT !.nextChatId = @ + 1,
                         !.chats = Append(@, a),
                         !.activeChatId = newChat.id],
       objs |-> [x \in DOMAIN objs \cup {a} |-> IF x = a THEN newChat ELSE objs[x]]]

ClosedIndex_Kept == activeArtifactMessageIndex

\* the value closeArtifactPane assigns to activeArtifactMessageIndex
ClosedIndex == Null

\* closeArtifactPane on session st over heap objs
ClosePane(st, objs) ==
  /\ activeArtifactMessageIndex' = ClosedIndex
  /\ storage' = <<Serialize(st, objs)>>
  /\ tabs' = TabIds(st, objs)
  /\ viewButtons' = Buttons(st, objs)
  /\ renderSaved' = (Transcript(st, objs) = SavedTranscript(<<Serialize(st, objs)>>))
  /\ artifactVisible' = PaneVisible(st, objs, Null)

SignedOutState_KeepChats == [state EXCEPT !.isAuthenticated = FALSE]

SignedOutState_KeepActive ==
  [isAuthenticated |-> FALSE, chats |-> << >>, activeChatId |-> state.activeChatId,
   nextChatId |-> 1]

\* the object literal handleAuthClick assigns on sign-out
SignedOutState ==
  [isAuthenticated |-> FALSE, chats |-> << >>, activeChatId |-> Null, nextChatId |-> 1]

SignOut ==
  /\ state.isAuthenticated
  /\ state' = SignedOutState
  /\ chatObjs' = Collect(chatObjs, state', InFlight)
  /\ activeArtifactMessageIndex' = ClosedIndex
  /\ storage' = <<Serialize(state', chatObjs)>>
  /\ tabs' = TabIds(state', chatObjs)
  /\ renderSaved' = (Transcript(state', chatObjs) = SavedTranscript(storage'))
  /\ artifactVisible' = PaneVisible(state', chatObjs, Null)
  \* renderApp, signed out: tabs hidden, chatContainer replaced by the welcome screen
  /\ tabsHidden' = TRUE
  /\ viewButtons' = {}
  /\ activeChat' = MoveTo(activeChat, state')
  /\ last' = << >>
  /\ UNCHANGED <<isLoading, pc, query, msgIdx, isRetry, fullText, nChunks, issued,
                 calls, received>>

SignIn ==
  /\ ~state.isAuthenticated
  /\ LET st1 == [state EXCEPT !.isAuthenticated = TRUE]
         fresh == Len(st1.chats) = 0
         r == IF fresh THEN NewChat(st1, chatObjs) ELSE [st |-> st1, objs |-> chatObjs]
     IN  /\ state' = r.st
         /\ chatObjs' = r.objs
         /\ issued' = IF fresh THEN issued \cup {st1.nextChatId} ELSE issued
         /\ activeArtifactMessageIndex' =
              IF fresh THEN Null ELSE activeArtifactMessageIndex
         /\ storage' = <<Serialize(r.st, r.objs)>>
         \* renderApp, signed in: renderTabs, renderChatHistory, renderArtifactPane
         /\ tabsHidden' = FALSE
         /\ tabs' = TabIds(r.st, r.objs)
         /\ viewButtons' = Buttons(r.st, r.objs)
         /\ renderSaved' = (Transcript(r.st, r.objs) = SavedTranscript(storage'))
         /\ artifactVisible' = PaneVisible(r.st, r.objs, activeArtifactMessageIndex')
  /\ last' = << >>
  /\ UNCHANGED <<isLoading, frameVars, calls, received>>

handleAuthClick == SignOut \/ SignIn

AlreadyActive_Never(chatId) == FALSE

\* the early return of handleTabSwitch
AlreadyActive(chatId) == chatId = state.activeChatId

\* a click on a rendered tab item
handleTabSwitch(chatId) ==
  /\ ~tabsHidden
  /\ chatId \in Range(tabs)
  /\ IF AlreadyActive(chatId)
     THEN UNCHANGED <<state, activeArtifactMessageIndex, storage, domVars, renderSaved>>
     ELSE /\ state' = [state EXCEPT !.activeChatId = chatId]
          /\ ClosePane(state', chatObjs)
          /\ UNCHANGED tabsHidden
  /\ last' = << >>
  /\ UNCHANGED <<chatObjs, isLoading, frameVars, issued, calls, received>>

\* a click on the "+" button renderTabs appends to the tab strip
handleNewChat ==
  /\ ~tabsHidden
  /\ Len(state.chats) < MaxChats
  /\ LET r == NewChat(state, chatObjs)
     IN  /\ state' = r.st
         /\ chatObjs' = r.objs
         /\ issued' = issued \cup {state.nextChatId}
         /\ ClosePane(r.st, r.objs)
  /\ last' = << >>
  /\ UNCHANGED <<tabsHidden, isLoading, frameVars, calls, received>>

\* a click on the View Artifact button of the bubble at position index
handleArtifactView(index) ==
  /\ index \in viewButtons
  /\ activeArtifactMessageIndex' = index
  /\ viewButtons' = Buttons(state, chatObjs)
  /\ renderSaved' = (Transcript(state, chatObjs) = SavedTranscript(storage))
  /\ artifactVisible' = PaneVisible(state, chatObjs, index)
  /\ last' = << >>
  /\ UNCHANGED <<state, chatObjs, isLoading, storage, frameVars, tabsHidden, tabs,
                 issued, calls, received>>

\* a click on closeArtifactButton, which is part of the artifact pane
closeArtifactPane ==
  /\ artifactVisible
  /\ ClosePane(state, chatObjs)
  /\ last' = << >>
  /\ UNCHANGED <<state, chatObjs, isLoading, frameVars, tabsHidden, issued, calls,
                 received>>

\* the page is loaded again: module initialisers, then the DOMContentLoaded listener
DOMContentLoaded ==
  /\ state' = IF storage = << >> THEN DefaultState ELSE ParsedState(storage[1])
  /\ chatObjs' = IF storage = << >> THEN EmptyHeap ELSE ParsedObjs(storage[1])
  /\ isLoading' = FALSE
  /\ activeArtifactMessageIndex' = Null
  /\ pc' = "idle"
  /\ query' = << >>
  /\ activeChat' = Null
  /\ msgIdx' = 0
  /\ isRetry' = FALSE
  /\ fullText' = << >>
  /\ nChunks' = 0
  /\ tabsHidden' = ~state'.isAuthenticated
  /\ tabs' = IF state'.isAuthenticated THEN TabIds(state', chatObjs') ELSE << >>
  /\ viewButtons' = IF state'.isAuthenticated THEN Buttons(state', chatObjs') ELSE {}
  /\ artifactVisible' = FALSE
  /\ renderSaved' = TRUE
  /\ issued' = Range(TabIds(state', chatObjs'))
  /\ calls' = NoCalls
  /\ received' = << >>
  /\ last' = <<[kind |-> "loaded"]>>
  /\ UNCHANGED storage

\* ---- handleSearch
\* what the submit event finds in searchInput
RawInputs ==
  { << >>, <<" ">>,
    <<" ", "Draw", "animate", "code">>,
    <<"animate", "code">>,
    <<"drawing", "js">>,
    <<"cat", "video of", "app">>,
    <<"write", "draw">>,
    <<"cat">> }

SearchRejected_NoGate(q) == q = << >> \/ state.activeChatId = Null

\* the early return of handleSearch
SearchRejected(q) == q = << >> \/ isLoading \/ state.activeChatId = Null

FirstAwait(mode) ==
  CASE mode = "image" -> "img_generate"
    [] mode = "video" -> "vid_hasKey"
    [] mode = "code" -> "code_open"
    [] OTHER -> "text_open"

ResetFrame ==
  /\ pc' = "idle"
  /\ query' = << >>
  /\ activeChat' = Null
  /\ msgIdx' = 0
  /\ isRetry' = FALSE
  /\ fullText' = << >>
  /\ nChunks' = 0

handleSearch(raw) ==
  LET q == Trim(raw)
      ac == FindChat(state, chatObjs)
      objs1 == [chatObjs EXCEPT ![ac].history = Append(@, [role |-> "user", text |-> q])]
      objs2 == [objs1 EXCEPT ![ac].history = Append(@, [role |-> "model", text |-> << >>])]
  IN  \* the model stops submitting to an idle controller after MaxQueries queries
      /\ SearchRejected(q) \/ isLoading \/ Pairs(chatObjs) < 2 * MaxQueries
      /\ last' = IF SearchRejected(q) /\ q # << >> /\ isLoading
                 THEN <<[kind |-> "dropped"]>>
                 ELSE << >>
      /\ IF SearchRejected(q)
         THEN UNCHANGED <<state, chatObjs, isLoading, activeArtifactMessageIndex, storage,
                          frameVars, domVars, issued, calls, received, renderSaved>>
         ELSE IF ac = Null
         \* activeChat is undefined: line 144 throws before the try, the gate stays held
         THEN /\ isLoading' = TRUE
              /\ UNCHANGED <<state, chatObjs, activeArtifactMessageIndex, storage,
                             frameVars, domVars, issued, calls, received, renderSaved>>
         ELSE /\ isLoading' = TRUE
              /\ storage' = <<Serialize(state, objs1)>>
              /\ renderSaved' = (Transcript(state, objs1) = SavedTranscript(storage'))
              \* the bubble appended for modelMessage has no button yet
              /\ viewButtons' = Buttons(state, objs1)
              /\ chatObjs' = Collect(objs2, state, {ac})
              /\ pc' = FirstAwait(Classify(q))
              /\ query' = q
              /\ activeChat' = ac
              /\ msgIdx' = Len(objs2[ac].history)
              /\ isRetry' = FALSE
              /\ fullText' = << >>
              /\ nChunks' = 0
              /\ calls' = NoCalls
              /\ received' = << >>
              /\ UNCHANGED <<state, activeArtifactMessageIndex, tabsHidden, tabs,
                             artifactVisible, issued>>

\* ---- leaving the handler: the catch and finally blocks of handleSearch
SetMsg_InActiveChat(objs, k, v) ==
  LET a == FindChat(state, objs)
  IN  IF a # Null /\ msgIdx <= Len(objs[a].history)
      THEN [objs EXCEPT ![a].history[msgIdx] = SetField(@, k, v)]
      ELSE objs

\* an assignment to a field of modelMessage, the object the handler was given
SetMsg(objs, k, v) ==
  [objs EXCEPT ![activeChat].history[msgIdx] = SetField(@, k, v)]

GateAfterFinally_OnlyOnSuccess(thrown) == thrown

\* the value the finally block leaves in isLoading
GateAfterFinally(thrown) == FALSE

SavedAtExit_Skipped(objs1) == storage

\* what the saveState call of the finally block leaves in storage
SavedAtExit(objs1) == <<Serialize(state, objs1)>>

HandlerOf(p) ==
  CASE p \in {"img_generate"} -> "image"
    [] p \in {"vid_hasKey", "vid_readDelay", "vid_selectKey", "vid_generate",
              "vid_pollDelay", "vid_poll", "vid_fetch", "vid_blob",
              "vid_retryDelay", "vid_reselectKey"} -> "video"
    [] p \in {"code_open", "code_stream"} -> "code"
    [] p \in {"text_open", "text_stream"} -> "text"
    [] OTHER -> "none"

\* the handler has returned (thrown = FALSE) or thrown past itself, leaving heap objs1
Finally(objs1, thrown, calls1) ==
  /\ isLoading' = GateAfterFinally(thrown)
  /\ viewButtons' = Buttons(state, objs1)
  /\ renderSaved' = (Transcript(state, objs1) = SavedTranscript(storage))
  /\ storage' = SavedAtExit(objs1)
  /\ chatObjs' = Collect(objs1, state, {})
  /\ ResetFrame
  /\ calls' = NoCalls
  /\ received' = << >>
  /\ last' = <<[kind |-> "done",
                handler |-> HandlerOf(pc),
                query |-> query,
                msg |-> objs1[activeChat].history[msgIdx],
                orphan |-> activeChat \notin Range(state.chats),
                thrown |-> thrown,
                retried |-> isRetry,
                calls |-> calls1]>>
  /\ UNCHANGED <<state, activeArtifactMessageIndex, tabsHidden, tabs, artifactVisible,
                 issued>>

Returned(objs1) == Finally(objs1, FALSE, calls)

\* the catch block of handleSearch
Thrown ==
  Finally(SetMsg(chatObjs, "text", <<"Sorry, an error occurred. Please try again.">>),
          TRUE, calls)

\* a step of the video handler that leaves it at another await
Goto(p, calls1, retry1) ==
  /\ pc' = p
  /\ calls' = calls1
  /\ isRetry' = retry1
  /\ last' = << >>
  /\ UNCHANGED <<state, chatObjs, isLoading, activeArtifactMessageIndex, storage,
                 query, activeChat, msgIdx, fullText, nChunks, domVars, issued,
                 received, renderSaved>>

\* ---- handleImageGeneration
ImageParts ==
  { << >>,
    <<[text |-> "caption"]>>,
    <<[text |-> "caption"], [inlineData |-> [data |-> "AAAA"]]>>,
    <<[inlineData |-> [data |-> ""]], [inlineData |-> [data |-> "AAAA"]]>> }

RECURSIVE FirstInlineData(_)
FirstInlineData(parts) ==
  IF parts = << >> THEN ""
  ELSE IF "inlineData" \in DOMAIN Head(parts) THEN Head(parts).inlineData.data
  ELSE FirstInlineData(Tail(parts))

ImageResponse(parts) ==
  /\ pc = "img_generate"
  /\ LET base64ImageBytes == FirstInlineData(parts)
     IN  IF base64ImageBytes # ""
         THEN Returned(SetMsg(SetMsg(chatObjs, "image",
                                     <<"data:image/png;base64,", base64ImageBytes>>),
                              "text",
                              <<"Here is the image you requested for: \"">> \o query
                                \o <<"\"">>))
         ELSE Returned(SetMsg(chatObjs, "text", <<"Sorry, I couldn't create that image.">>))

\* generateContent rejects, or its response has no candidates to read parts from
ImageThrows ==
  /\ pc = "img_generate"
  /\ Thrown

handleImageGeneration ==
  \/ \E parts \in ImageParts : ImageResponse(parts)
  \/ ImageThrows

\* ---- handleVideoGeneration
CredentialSignature == "Requested entity was not found"

\* the messages of the errors the awaited calls may reject with; << >> is no message
ErrorMessages == { <<CredentialSignature>>, <<"quota exceeded">>, << >> }

StatusTexts == {"Not Found", CredentialSignature}

\* what generateVideos and getVideosOperation resolve to
Operations ==
  { [done |-> FALSE, uri |-> << >>],
    [done |-> TRUE, uri |-> << >>],
    [done |-> TRUE, uri |-> <<"https://video/1">>] }

IsCredentialInvalid_AnyError(message) == TRUE

\* the test of the catch block on error.message
IsCredentialInvalid(message) == Includes(message, CredentialSignature)

RetryAllowed_Always == TRUE

\* the isRetry test of the catch block
RetryAllowed == ~isRetry

\* the catch block of handleVideoGeneration, entered with an error of that message
\* after the external calls calls0
VideoCatch(message, calls0) ==
  LET calls1 == [calls0 EXCEPT !.caught = <<message>>]
  IN  IF IsCredentialInvalid(message)
      THEN IF ~RetryAllowed
           THEN Finally(SetMsg(chatObjs, "text",
                  <<"Video generation failed again. Please ensure your selected key is valid and has billing enabled.">>),
                  FALSE, [calls1 EXCEPT !.retryCred = TRUE])
           ELSE Goto("vid_retryDelay", [calls1 EXCEPT !.firstCred = TRUE], isRetry)
      ELSE Finally(SetMsg(chatObjs, "text", <<"Sorry, I couldn't create that video.">>),
                   FALSE, calls1)

\* new GoogleGenAI(...) and the call of generateVideos
SubmitGeneration(retry1, calls1) ==
  Goto("vid_generate",
       [calls1 EXCEPT !.submits = Bump(@), !.opDone = FALSE, !.hasUri = FALSE,
                      !.ok = FALSE],
       retry1)

AfterOperation_NoLinkTest(operation) ==
  LET calls1 == [calls EXCEPT !.opDone = operation.done,
                              !.hasUri = operation.done /\ operation.uri # << >>]
  IN  IF ~operation.done THEN Goto("vid_pollDelay", calls1, isRetry)
      ELSE Goto("vid_fetch", calls1, isRetry)

\* the polling loop and the download link test, on the operation just received
AfterOperation(operation) ==
  LET calls1 == [calls EXCEPT !.opDone = operation.done,
                              !.hasUri = operation.done /\ operation.uri # << >>]
  IN  IF ~operation.done THEN Goto("vid_pollDelay", calls1, isRetry)
      ELSE IF operation.uri = << >>
        THEN VideoCatch(<<"No download link provided.">>, calls1)
      ELSE Goto("vid_fetch", calls1, isRetry)

VideoHasKey ==
  /\ pc = "vid_hasKey"
  /\ \E hasKey \in BOOLEAN :
       IF hasKey THEN SubmitGeneration(isRetry, calls)
       ELSE Goto("vid_readDelay", calls, isRetry)

VideoReadDelay ==
  /\ pc = "vid_readDelay"
  /\ Goto("vid_selectKey", calls, isRetry)

VideoSelectKey ==
  /\ pc = "vid_selectKey"
  /\ SubmitGeneration(isRetry, calls)

VideoGenerate ==
  /\ pc = "vid_generate"
  /\ \E operation \in Operations : AfterOperation(operation)

VideoPollDelay ==
  /\ pc = "vid_pollDelay"
  /\ Goto("vid_poll", calls, isRetry)

VideoPollPending ==
  /\ pc = "vid_poll"
  /\ \E operation \in {o \in Operations : ~o.done} : AfterOperation(operation)

VideoPollDone ==
  /\ pc = "vid_poll"
  /\ \E operation \in {o \in Operations : o.done} : AfterOperation(operation)

VideoFetch ==
  /\ pc = "vid_fetch"
  /\ \/ Goto("vid_blob", [calls EXCEPT !.ok = TRUE], isRetry)
     \/ \E statusText \in StatusTexts :
          VideoCatch(<<"Failed to download video: ", statusText>>, calls)

VideoBlob ==
  /\ pc = "vid_blob"
  /\ Returned(SetMsg(SetMsg(chatObjs, "video", <<"blob:", "1">>),
                     "text", <<"Here is the video you requested.">>))

\* an awaited call inside the try block rejects
VideoThrows ==
  /\ pc \in {"vid_hasKey", "vid_selectKey", "vid_generate", "vid_poll", "vid_fetch",
             "vid_blob"}
  /\ \E message \in ErrorMessages : VideoCatch(message, calls)

VideoRetryDelay ==
  /\ pc = "vid_retryDelay"
  /\ Goto("vid_reselectKey", [calls EXCEPT !.reprompts = Bump(@)], isRetry)

\* openSelectKey of the catch block resolves: the recursive call with isRetry = true
VideoRetry ==
  /\ pc = "vid_reselectKey"
  /\ SubmitGeneration(TRUE, [calls EXCEPT !.retries = Bump(@)])

\* openSelectKey of the catch block rejects: the error leaves the handler
VideoReselectThrows ==
  /\ pc = "vid_reselectKey"
  /\ Thrown

handleVideoGeneration ==
  \/ VideoHasKey
  \/ VideoReadDelay
  \/ VideoSelectKey
  \/ VideoGenerate
  \/ VideoPollDelay
  \/ VideoPollPending
  \/ VideoPollDone
  \/ VideoFetch
  \/ VideoBlob
  \/ VideoThrows
  \/ VideoRetryDelay
  \/ VideoRetry
  \/ VideoReselectThrows

\* ---- the two streaming handlers
FencedHtml == <<Fence, "html", "\n", "<p>", Fence>>

\* a css block, then a block tagged JS whose body is blank
FencedCssJs == <<Fence, "css", "\n", "p{}", Fence, "\n", Fence, "JS", "\n", " ", Fence>>

\* a block in a language extractCode does not collect
FencedPy == <<Fence, "py", "\n", "x", Fence>>

\* a block the increment leaves open
OpenHtml == <<Fence, "HTML", "\n", "<b>">>

CodeChunks ==
  { [text |-> << >>], [text |-> <<"Hi">>], [text |-> FencedHtml],
    [text |-> FencedCssJs], [text |-> FencedPy], [text |-> OpenHtml] }

\* groundingChunks of an increment: << >> when any link of the optional chain is
\* undefined, else <<the list>>
TextChunks ==
  { [text |-> << >>, groundingChunks |-> << >>],
    [text |-> <<"Hi">>, groundingChunks |-> << << >> >>],
    [text |-> <<"Hi">>, groundingChunks |-> << <<"a">> >>],
    [text |-> << >>, groundingChunks |-> << <<"b">> >>] }

\* a step of a streaming handler that leaves it at another await
StreamGoto(p, text1, chunk) ==
  /\ pc' = p
  /\ fullText' = text1
  /\ nChunks' = IF chunk = << >> THEN nChunks ELSE nChunks + 1
  /\ received' = IF HandlerOf(p) = "text" THEN received \o chunk ELSE received
  /\ last' = << >>
  /\ UNCHANGED <<state, isLoading, activeArtifactMessageIndex, storage, query,
                 activeChat, msgIdx, isRetry, domVars, issued, calls, renderSaved>>

RECURSIVE StreamTexts(_)
\* the texts a stream of at most n increments can accumulate
StreamTexts(n) ==
  IF n = 0 THEN { << >> }
  ELSE LET shorter == StreamTexts(n - 1)
       IN  shorter \cup {t \o chunk.text : t \in shorter, chunk \in CodeChunks}

\* extractCode tabulated over those texts
ExtractedCode == [t \in StreamTexts(MaxChunks) |-> extractCode(t)]

CodeOpen ==
  /\ pc = "code_open"
  /\ StreamGoto("code_stream", fullText, << >>)
  /\ UNCHANGED chatObjs

CodeChunk ==
  /\ pc = "code_stream"
  /\ nChunks < MaxChunks
  /\ \E chunk \in CodeChunks :
       StreamGoto("code_stream",
                  IF chunk.text # << >> THEN fullText \o chunk.text ELSE fullText,
                  <<chunk>>)
  /\ UNCHANGED chatObjs

CodeEnd ==
  /\ pc = "code_stream"
  /\ LET objs1 == SetMsg(chatObjs, "text", fullText)
         code == ExtractedCode[fullText]
     IN  Returned(IF code = << >> THEN objs1 ELSE SetMsg(objs1, "code", code[1]))

CodeThrows ==
  /\ pc \in {"code_open", "code_stream"}
  /\ Thrown

handleCodeGeneration == CodeOpen \/ CodeChunk \/ CodeEnd \/ CodeThrows

Sources_Accumulate(message, chunk) ==
  IF chunk.groundingChunks # << >> /\ Len(chunk.groundingChunks[1]) > 0
  THEN SetField(message, "sources",
                (IF "sources" \in DOMAIN message THEN message.sources ELSE << >>)
                  \o chunk.groundingChunks[1])
  ELSE message

\* the groundingMetadata test of the loop body and its assignment to message.sources
Sources(message, chunk) ==
  IF chunk.groundingChunks # << >> /\ Len(chunk.groundingChunks[1]) > 0
  THEN SetField(message, "sources", chunk.groundingChunks[1])
  ELSE message

TextOpen ==
  /\ pc = "text_open"
  /\ StreamGoto("text_stream", fullText, << >>)
  /\ UNCHANGED chatObjs

TextChunk ==
  /\ pc = "text_stream"
  /\ nChunks < MaxChunks
  /\ \E chunk \in TextChunks :
       /\ StreamGoto("text_stream",
                     IF chunk.text # << >> THEN fullText \o chunk.text ELSE fullText,
                     <<chunk>>)
       /\ chatObjs' = [chatObjs EXCEPT ![activeChat].history[msgIdx] = Sources(@, chunk)]

TextEnd ==
  /\ pc = "text_stream"
  /\ Returned(SetMsg(chatObjs, "text", fullText))

TextThrows ==
  /\ pc \in {"text_open", "text_stream"}
  /\ Thrown

handleTextSearch == TextOpen \/ TextChunk \/ TextEnd \/ TextThrows

\* ---- the system
HandlerStep ==
  \/ handleImageGeneration
  \/ handleVideoGeneration
  \/ handleCodeGeneration
  \/ handleTextSearch

UserStep ==
  \/ handleAuthClick
  \/ \E chatId \in 1..MaxChats : handleTabSwitch(chatId)
  \/ handleNewChat
  \/ \E index \in 1..(2 * MaxQueries) : handleArtifactView(index)
  \/ closeArtifactPane
  \/ \E raw \in RawInputs : handleSearch(raw)

Next == UserStep \/ HandlerStep \/ DOMContentLoaded

Spec == Init /\ [][Next]_vars

\* Every await of the handler in flight eventually resolves or rejects.
LiveSpec == Spec /\ WF_vars(HandlerStep)

\* ---- properties
Done == last # << >> /\ last[1].kind = "done"
Dropped == last # << >> /\ last[1].kind = "dropped"
Ids(st, objs) == Range(TabIds(st, objs))

\* C1: nextChatId is strictly greater than every chat id issued since load, also
\* after a sign-out.
C1_NextChatIdAboveIssued == \A id \in issued : id < state.nextChatId

\* C2: while a query is in flight the gate stays held, and a submission made
\* meanwhile appends no message and changes no chat, whatever else has happened
\* since the query was accepted.
C2_GateDropsSubmissions ==
  /\ [](pc # "idle" => isLoading)
  /\ [][(pc # "idle" /\ \E raw \in RawInputs : handleSearch(raw))
          => /\ UNCHANGED <<state, chatObjs, storage>>
             /\ pc' = pc
             /\ isLoading']_vars

\* a non-empty submission has just been dropped at the gate, in a chat other than
\* the one the running query was accepted in
C2_Witness ==
  /\ Dropped
  /\ pc # "idle"
  /\ state.activeChatId # Null
  /\ FindChat(state, chatObjs) # activeChat

\* C3, as stated: every accepted query eventually releases the loading gate.
C3_GateEventuallyReleased == isLoading ~> ~isLoading

\* C3, amended: the gate is released again and again unless the handler is polling
\* a video operation, which it does for as long as the operation is not done.
C3_GateReleasedUnlessPolling == []<>(~isLoading \/ pc = "vid_poll")

\* the outer safety net has just released the gate for a video query
C3_Witness == Done /\ last[1].thrown /\ last[1].handler = "video" /\ ~isLoading

FailedAgain ==
  <<"Video generation failed again. Please ensure your selected key is valid and has billing enabled.">>

\* C4, as stated: a first credential failure causes exactly one re-prompt and
\* exactly one retry; a credential failure of the retry is terminal; at most two
\* generation requests are submitted.
C4_ExactlyOneRetry ==
  (Done /\ last[1].handler = "video" /\ last[1].calls.firstCred)
    => /\ last[1].calls.reprompts = 1
       /\ last[1].calls.retries = 1
       /\ last[1].calls.submits <= 2
       /\ last[1].calls.retryCred => last[1].msg.text = FailedAgain

\* C4, amended: a first credential failure causes exactly one re-prompt, and a
\* retry exactly when that re-prompt completes; a credential failure of the retry
\* is terminal; no query submits more than two generation requests or retries
\* more than once.
C4_OneRetryIfRepromptCompletes ==
  /\ calls.submits <= 2 /\ calls.reprompts <= 1 /\ calls.retries <= 1
  /\ calls.firstCred /\ pc \notin {"idle", "vid_retryDelay"} => calls.reprompts = 1
  /\ (Done /\ last[1].handler = "video")
       => /\ last[1].calls.submits <= 2
          /\ last[1].calls.retries <= 1
          /\ last[1].calls.retries = 1 <=> last[1].retried
          /\ last[1].calls.firstCred
               => /\ last[1].calls.reprompts = 1
                  /\ last[1].calls.retries = 1 <=> ~last[1].thrown
          /\ ~last[1].calls.firstCred
               => last[1].calls.reprompts = 0 /\ last[1].calls.retries = 0
          /\ last[1].calls.retryCred
               => /\ last[1].msg.text = FailedAgain
                  /\ last[1].calls.firstCred
                  /\ last[1].calls.retries = 1

\* the retry of a video query has just failed with a credential error
C4_Witness ==
  /\ Done /\ last[1].handler = "video"
  /\ last[1].calls.firstCred /\ last[1].calls.retryCred
  /\ last[1].calls.submits = 2

\* C5: when handleSearch finishes a query the model message's text is non-empty.
C5_FinishedTextNonEmpty == Done => last[1].msg.text # << >>

\* C6: persistence precedes rendering: once a query has completed, the transcript
\* on screen was rendered from a session that was already in storage.
C6_SavedBeforeRendered == pc = "idle" => renderSaved

\* C7: a signed-out session has no chats and no active chat.
C7_SignedOutIsEmpty ==
  ~state.isAuthenticated => state.chats = << >> /\ state.activeChatId = Null

\* a handler has just completed after the session it was started in was signed out
C7_Witness == ~state.isAuthenticated /\ Done /\ last[1].orphan

\* C8: activeChatId is null or the id of a chat in state.chats.
C8_ActiveChatExists ==
  state.activeChatId = Null \/ state.activeChatId \in Ids(state, chatObjs)

\* the first chat is active again although a second one was created, mid-query
C8_Witness ==
  /\ Len(state.chats) = 2
  /\ state.activeChatId = chatObjs[state.chats[1]].id
  /\ pc # "idle"

RECURSIVE LastNonEmptyGrounding(_)
LastNonEmptyGrounding(chunks) ==
  IF chunks = << >> THEN << >>
  ELSE LET g == chunks[Len(chunks)].groundingChunks
       IN  IF g # << >> /\ g[1] # << >> THEN g
           ELSE LastNonEmptyGrounding(SubSeq(chunks, 1, Len(chunks) - 1))

\* C9: in the text-search handler the message's sources are the citation list of
\* the most recent increment that carried a non-empty one, unset if none did.
C9_SourcesLastNonEmpty ==
  pc = "text_stream" =>
    LET message == chatObjs[activeChat].history[msgIdx]
        expected == LastNonEmptyGrounding(received)
    IN  IF expected = << >> THEN "sources" \notin DOMAIN message
        ELSE "sources" \in DOMAIN message /\ message.sources = expected[1]

\* two increments with different non-empty citation lists have been consumed
C9_Witness ==
  /\ pc = "text_stream"
  /\ Len(received) = 2
  /\ received[1].groundingChunks \notin {<< >>, << << >> >>}
  /\ received[2].groundingChunks \notin {<< >>, << << >> >>}
  /\ received[1].groundingChunks # received[2].groundingChunks

Expected(q) ==
  CASE imageKeywords(q) -> "image"
    [] ~imageKeywords(q) /\ videoKeywords(q) -> "video"
    [] ~imageKeywords(q) /\ ~videoKeywords(q) /\ codeKeywords(q) -> "code"
    [] OTHER -> "text"

\* C10: an accepted query runs in the handler its first matching pattern names
\* (image prefix, then video phrase, then code keyword, else text search), and in
\* that handler only.
C10_RoutingPriority ==
  /\ [](pc # "idle" => HandlerOf(pc) = Expected(query))
  /\ [](Done => last[1].handler = Expected(last[1].query))
  /\ [][pc # "idle" /\ pc' # "idle" => HandlerOf(pc') = HandlerOf(pc)]_vars

\* the image handler runs a query that also has a video phrase and a code keyword
C10_Witness ==
  pc = "img_generate" /\ videoKeywords(query) /\ codeKeywords(query)

\* the fenced blocks of md from position from on, in order of appearance: a fence,
\* a tag of word tokens, a newline, a body up to the next fence
IsBlock(md, o, c) ==
  /\ md[o] = Fence
  /\ md[c] = Fence
  /\ \E n \in (o + 1)..(c - 1) :
       /\ md[n] = "\n"
       /\ \A i \in (o + 1)..(n - 1) : IsWord(md[i])
       /\ \A i \in (n + 1)..(c - 1) : md[i] # Fence

BlockOf(md, o, c) ==
  LET n == CHOOSE k \in (o + 1)..(c - 1) :
             md[k] = "\n" /\ \A i \in (o + 1)..(k - 1) : IsWord(md[i])
  IN  [tag |-> SubSeq(md, o + 1, n - 1), body |-> SubSeq(md, n + 1, c - 1)]

RECURSIVE FencedBlocks(_, _)
FencedBlocks(md, from) ==
  LET opens == {o \in from..Len(md) : \E c \in (o + 1)..Len(md) : IsBlock(md, o, c)}
  IN  IF opens = {} THEN << >>
      ELSE LET o == CHOOSE x \in opens : \A y \in opens : x <= y
               c == CHOOSE x \in (o + 1)..Len(md) : IsBlock(md, o, x)
           IN  <<BlockOf(md, o, c)>> \o FencedBlocks(md, c + 1)

Tagged(blocks, tags) == SelectSeq(blocks, LAMBDA b : b.tag \in tags)

RECURSIVE Joined(_)
Joined(blocks) ==
  IF blocks = << >> THEN << >>
  ELSE Trim(Head(blocks).body) \o <<"\n">> \o Joined(Tail(blocks))

HtmlTags == {<<"html">>, <<"HTML">>}
CssTags == {<<"css">>}
JsTags == {<<"javascript">>, <<"js">>, <<"JS">>}

\* C11: when the code handler completes, the message's code field is set exactly
\* when the text has a fenced block tagged html, css, javascript or js; when set,
\* each language holds its blocks joined in order of appearance, non-empty when it
\* has a block and empty when it has none; when no such block exists, or the
\* handler failed, the field is absent.
C11_CodeIffRecognizedBlock ==
  (Done /\ last[1].handler = "code") =>
    LET msg == last[1].msg
        blocks == FencedBlocks(msg.text, 1)
        html == Tagged(blocks, HtmlTags)
        css == Tagged(blocks, CssTags)
        js == Tagged(blocks, JsTags)
    IN  IF last[1].thrown THEN "code" \notin DOMAIN msg
        ELSE /\ "code" \in DOMAIN msg <=> (html # << >> \/ css # << >> \/ js # << >>)
             /\ "code" \in DOMAIN msg =>
                  /\ DOMAIN msg.code = {"html", "css", "javascript"}
                  /\ msg.code.html = Joined(html)
                  /\ msg.code.css = Joined(css)
                  /\ msg.code.javascript = Joined(js)
                  /\ msg.code.html # << >> <=> html # << >>
                  /\ msg.code.css # << >> <=> css # << >>
                  /\ msg.code.javascript # << >> <=> js # << >>

\* the code handler has completed on a text with a block in an uncollected
\* language, a css block and a javascript block, and no html block
C11_Witness ==
  /\ Done /\ last[1].handler = "code" /\ ~last[1].thrown
  /\ Len(FencedBlocks(last[1].msg.text, 1)) = 3
  /\ "code" \in DOMAIN last[1].msg
  /\ last[1].msg.code.html = << >>
  /\ last[1].msg.code.css # << >>
  /\ last[1].msg.code.javascript # << >>

\* the snapshot in storage is the session st over heap objs, field by field
Persisted(stor, st, objs) ==
  /\ stor # << >>
  /\ stor[1].isAuthenticated = st.isAuthenticated
  /\ stor[1].activeChatId = st.activeChatId
  /\ stor[1].nextChatId = st.nextChatId
  /\ Len(stor[1].chats) = Len(st.chats)
  /\ \A i \in 1..Len(st.chats) : stor[1].chats[i] = objs[st.chats[i]]

\* C12: a click on the tab that is already active changes neither the session,
\* nor the active-artifact index, nor the snapshot in storage; a click on the tab
\* of another chat makes that chat active, sets the active-artifact index to none,
\* writes the session to storage and changes no chat's history.
C12_TabSwitch ==
  [][\A chatId \in 1..MaxChats :
       handleTabSwitch(chatId) =>
         IF chatId = state.activeChatId
         THEN UNCHANGED <<state, chatObjs, activeArtifactMessageIndex, storage>>
         ELSE /\ state' = [state EXCEPT !.activeChatId = chatId]
              /\ activeArtifactMessageIndex' = Null
              /\ Persisted(storage', state', chatObjs')
              /\ chatObjs' = chatObjs]_vars

\* the first chat, which holds a code artifact, is active again after a second chat
\* was created, with no artifact open and the switch in storage
C12_Witness ==
  /\ Len(state.chats) = 2
  /\ state.activeChatId = chatObjs[state.chats[1]].id
  /\ Buttons(state, chatObjs) # {}
  /\ activeArtifactMessageIndex = Null
  /\ Persisted(storage, state, chatObjs)
  /\ pc = "idle"

Loaded == last # << >> /\ last[1].kind = "loaded"

GenericVideoFailure == <<"Sorry, I couldn't create that video.">>

\* the error the catch block of the video handler last received, recorded in c,
\* does not carry the credential-invalidity signature
CaughtOther(c) ==
  c.caught # << >> /\ \A i \in 1..Len(c.caught[1]) : c.caught[1][i] # CredentialSignature

\* C14: in the video handler an error without the credential-invalidity signature
\* ends the query where it occurs, on the first attempt and on the retry alike:
\* the handler is never left running after one, it writes the generic failure
\* text, and the step makes no re-prompt, no retry and no generation request.
C14_OtherErrorsTerminal ==
  /\ [](pc # "idle" => ~CaughtOther(calls))
  /\ []((Done /\ last[1].handler = "video" /\ CaughtOther(last[1].calls))
          => /\ last[1].msg.text = GenericVideoFailure
             /\ ~last[1].thrown
             /\ "video" \notin DOMAIN last[1].msg)
  /\ [][(HandlerOf(pc) = "video" /\ Done' /\ CaughtOther(last'[1].calls))
          => /\ last'[1].calls.submits = calls.submits
             /\ last'[1].calls.reprompts = calls.reprompts
             /\ last'[1].calls.retries = calls.retries]_vars

\* the retry of a video query has just ended on an error without the signature
C14_Witness ==
  /\ Done /\ last[1].handler = "video"
  /\ last[1].retried
  /\ CaughtOther(last[1].calls)
  /\ last[1].calls.submits = 2

VideoConfirmation == <<"Here is the video you requested.">>

Apology == <<"Sorry, an error occurred. Please try again.">>

\* C16: a tab switch or a new chat made while a query is in flight leaves the
\* handler where it is, holding the gate and the message it was given; every step
\* of the handler changes, in the session's chats, nothing but that one message,
\* which sits where handleSearch appended it, in the chat that was active at
\* submission, right after the user message; the other chats, the active one
\* included, keep their histories.
C16_ResultStaysInItsChat ==
  /\ [](pc # "idle" =>
         /\ isLoading
         /\ chatObjs[activeChat].history[msgIdx].role = "model"
         /\ chatObjs[activeChat].history[msgIdx - 1] = [role |-> "user", text |-> query])
  /\ [][(pc # "idle" /\ (handleNewChat \/ \E chatId \in 1..MaxChats : handleTabSwitch(chatId)))
          => /\ UNCHANGED <<pc, query, activeChat, msgIdx, isLoading>>
             /\ chatObjs'[activeChat] = chatObjs[activeChat]]_vars
  /\ [][HandlerStep
          => /\ state' = state
             /\ \A i \in 1..Len(state.chats) :
                  LET a == state.chats[i]
                  IN  IF a # activeChat THEN chatObjs'[a] = chatObjs[a]
                      ELSE /\ chatObjs'[a].id = chatObjs[a].id
                           /\ Len(chatObjs'[a].history) = Len(chatObjs[a].history)
                           /\ \A k \in 1..Len(chatObjs[a].history) :
                                k # msgIdx => chatObjs'[a].history[k] = chatObjs[a].history[k]
                           /\ Done' => chatObjs'[a].history[msgIdx] = last'[1].msg
                           /\ Done' /\ last'[1].thrown
                                => chatObjs'[a].history[msgIdx].text = Apology]_vars

\* a query has just completed with a result in a chat of the session while
\* another chat, whose history is empty, is the active one
C16_Witness ==
  /\ Done /\ ~last[1].orphan
  /\ last[1].msg.text # << >>
  /\ state.activeChatId # Null
  /\ Transcript(state, chatObjs) = << >>
  /\ \E i \in 1..Len(state.chats) :
       /\ Len(chatObjs[state.chats[i]].history) = 2
       /\ chatObjs[state.chats[i]].history[2] = last[1].msg

\* C17: whenever the active-artifact index is set, it is a position in the active
\* chat's history and the message there has a code field; every step that makes
\* another chat active or none (a switch to another tab, a new chat, a sign-out)
\* sets the index to none, and the index is set only by opening an artifact of the
\* active chat, so it never points into another chat than the one it was opened in.
C17_ArtifactIndexValid ==
  /\ [](activeArtifactMessageIndex # Null =>
         /\ FindChat(state, chatObjs) # Null
         /\ activeArtifactMessageIndex \in 1..Len(Transcript(state, chatObjs))
         /\ Transcript(state, chatObjs)[activeArtifactMessageIndex].role = "model"
         /\ "code" \in DOMAIN Transcript(state, chatObjs)[activeArtifactMessageIndex])
  /\ [][(state'.activeChatId # state.activeChatId \/ handleNewChat \/ SignOut)
          => activeArtifactMessageIndex' = Null]_vars
  /\ [][activeArtifactMessageIndex' # Null
          => /\ FindChat(state', chatObjs') = FindChat(state, chatObjs)
             /\ state'.activeChatId = state.activeChatId
             /\ \/ activeArtifactMessageIndex' = activeArtifactMessageIndex
                \/ activeArtifactMessageIndex' \in Buttons(state, chatObjs)]_vars

\* an artifact is open in the first chat although a second chat exists
C17_Witness ==
  /\ activeArtifactMessageIndex # Null
  /\ artifactVisible
  /\ Len(state.chats) = 2
  /\ state.activeChatId = chatObjs[state.chats[1]].id

\* the chat the step has appended to the session is a new, empty chat whose id is
\* the counter's value before the step, it is active, and the counter is one higher
AddsChat ==
  LET n == Len(state'.chats)
      newChat == chatObjs'[state'.chats[n]]
  IN  /\ n = Len(state.chats) + 1
      /\ \A i \in 1..Len(state.chats) :
           chatObjs'[state'.chats[i]] = chatObjs[state.chats[i]]
      /\ newChat.id = state.nextChatId
      /\ newChat.history = << >>
      /\ state'.activeChatId = newChat.id
      /\ state'.nextChatId = state.nextChatId + 1

\* C18: the chats of the session always have pairwise distinct ids; a new chat,
\* made by the new-chat button or by signing in, takes the counter's value as its
\* id and becomes active, and the counter grows by exactly one.
C18_DistinctChatIds ==
  /\ [](\A i, j \in 1..Len(state.chats) :
          i # j => chatObjs[state.chats[i]].id # chatObjs[state.chats[j]].id)
  /\ [][handleNewChat => AddsChat]_vars
  /\ [][(SignIn /\ Len(state.chats) = 0) => AddsChat]_vars
  /\ [][(Len(state'.chats) > Len(state.chats) /\ ~Loaded') => AddsChat]_vars

\* the new-chat button has just added a second chat: it has id 2 and is active,
\* and the counter is 3
C18_Witness ==
  /\ Len(state.chats) = 2
  /\ chatObjs[state.chats[1]].id = 1
  /\ chatObjs[state.chats[2]].id = 2
  /\ state.activeChatId = 2
  /\ state.nextChatId = 3
  /\ last = << >>

Alternates(history) ==
  /\ Len(history) % 2 = 0
  /\ \A k \in 1..Len(history) :
       history[k].role = IF k % 2 = 1 THEN "user" ELSE "model"

\* C19: in every state every chat's history has even length and alternates user,
\* model from a user message on; a step changes the length of the history of a
\* chat that stays in the session only by appending one user message followed by
\* one model message.
C19_HistoriesAlternate ==
  /\ [](\A i \in 1..Len(state.chats) : Alternates(chatObjs[state.chats[i]].history))
  /\ [][\A i \in 1..Len(state.chats) :
         (i <= Len(state'.chats)
            /\ chatObjs'[state'.chats[i]].id = chatObjs[state.chats[i]].id)
         => LET h == chatObjs[state.chats[i]].history
                g == chatObjs'[state'.chats[i]].history
            IN  \/ Len(g) = Len(h)
                \/ /\ Len(g) = Len(h) + 2
                   /\ SubSeq(g, 1, Len(h)) = h
                   /\ g[Len(h) + 1].role = "user"
                   /\ g[Len(h) + 2].role = "model"]_vars

\* C20: whenever no query is in flight, storage holds the session as it is in
\* memory (isAuthenticated, the chats with their histories, activeChatId and
\* nextChatId); storage is empty only as long as nothing has changed the session
\* that the page started with.
C20_StorageMatchesSession ==
  ~isLoading =>
    IF storage = << >> THEN state = DefaultState
    ELSE Persisted(storage, state, chatObjs)

\* a query has just completed after the session it was accepted in was signed
\* out and a new session was signed in
C20_Witness ==
  /\ Done /\ ~isLoading
  /\ last[1].orphan
  /\ state.isAuthenticated
  /\ Len(state.chats) = 1
  /\ Persisted(storage, state, chatObjs)

\* C21: no snapshot in storage holds a model message whose text is empty: the
\* pending model message of a query in flight is not written to storage before
\* its handler has finished, whatever the user does meanwhile.
C21_NoPendingMessageSaved ==
  storage # << >> =>
    \A i \in 1..Len(storage[1].chats) :
      \A k \in 1..Len(storage[1].chats[i].history) :
        LET message == storage[1].chats[i].history[k]
        IN  message.role = "model" => message.text # << >>

====
